---- MODULE Spec2Model ----
(***************************************************************************)
(* The AngelOne tool server of src/main.py: session establishment          *)
(* (get_smart_api_session) and the five tools built on it, run one         *)
(* invocation after the other (the code is synchronous and keeps no state  *)
(* between invocations).  The external SDK (SmartConnect, pyotp) is the    *)
(* environment: each of its calls either returns a value or raises an      *)
(* exception of class Exception, chosen nondeterministically, and every    *)
(* call the running invocation makes on it is recorded in `calls`, as a    *)
(* mocked SDK would record it; `log` is what the running invocation has    *)
(* handed to the logger; `built` remembers which invocation constructed    *)
(* which SmartConnect object.                                              *)
(***************************************************************************)
EXTENDS Integers, Sequences, FiniteSets, TLC

\* How many tool invocations a behaviour holds.
MaxInvocations == 2

(***************************************************************************)
(* Python values                                                           *)
(***************************************************************************)
\* An optional argument: <<>> when the caller leaves it out, <<v>> when given.
Opt(S) == {<<>>} \cup {<<v>> : v \in S}

\* Python's binding of a parameter that has a default value.
Default(o, d) == IF o = <<>> THEN d ELSE o[1]

\* None, and a response mapping with its 'status' entry ("missing": no such key).
PyNone == [kind |-> "None", status |-> "n/a"]

Dict(s) == [kind |-> "dict", status |-> s]

\* What an SDK call can return: a mapping flagged True, False, 0, None or
\* without a flag, or None.
Statuses == {"True", "False", "0", "None", "missing"}

Responses == {Dict(s) : s \in Statuses} \cup {PyNone}

\* Python's `x == False`: True for False and for 0.
PyEqFalse(s) == s \in {"False", "0"}

\* The exceptions the SDK raises, the ones the interpreter raises on
\* data['status'], and the one line 36 constructs.
SdkErrors == {"ConnectionError", "DataException"}

NoExc == "none"

AuthException == "Exception(Failed to authenticate with SmartAPI)"

NoHandle == 0

(***************************************************************************)
(* The tools and their arguments                                           *)
(***************************************************************************)
Swallowing == {"get_candle_data", "place_order", "cancel_order", "get_order_book"}

Tools == {"get_proftfolio"} \cup Swallowing

Times == {"2024-01-01 09:15", "not a time"}

Tokens == {"1594", "2885"}

NoArgs == [none |-> TRUE]

CandleArgs ==
  [start_time : Times, end_time : Times,
   symboltoken : Opt({"1594"}), interval : Opt({"ONE_DAY"})]

OrderArgs ==
  [symbol : {"INFY", "RELIANCE"}, symboltoken : Tokens,
   transactiontype : {"BUY", "SELL"}, quantity : {1, 10},
   ordertype : Opt({"MARKET"}), producttype : Opt({"INTRADAY"}),
   price : Opt({1500})]

CancelArgs == [order_id : {"o1", "o2"}, variety : Opt({"AMO"})]

\* get_candle_data's parameters as bound at the call.
CandleParams(a) ==
  [start_time |-> a.start_time, end_time |-> a.end_time,
   symboltoken |-> Default(a.symboltoken, "3045"),
   interval |-> Default(a.interval, "ONE_MINUTE")]

\* A query with the two ends of the period exchanged.
queryParams_swapped(a) ==
  LET p == CandleParams(a) IN
  [exchange |-> "NSE", symboltoken |-> p.symboltoken, interval |-> p.interval,
   fromdate |-> p.end_time, todate |-> p.start_time]

\* The query get_candle_data builds.
queryParams(a) ==
  LET p == CandleParams(a) IN
  [exchange |-> "NSE", symboltoken |-> p.symboltoken, interval |-> p.interval,
   fromdate |-> p.start_time, todate |-> p.end_time]

\* place_order's parameters as bound at the call.
OrderBound(a) ==
  [symbol |-> a.symbol, symboltoken |-> a.symboltoken,
   transactiontype |-> a.transactiontype, quantity |-> a.quantity,
   ordertype |-> Default(a.ordertype, "LIMIT"),
   producttype |-> Default(a.producttype, "DELIVERY"),
   price |-> Default(a.price, 0)]

\* An order request that leaves the caller's price out.
orderParams_price_dropped(a) ==
  LET p == OrderBound(a) IN
  [variety |-> "NORMAL", tradingsymbol |-> p.symbol,
   symboltoken |-> p.symboltoken, transactiontype |-> p.transactiontype,
   exchange |-> "NSE", ordertype |-> p.ordertype,
   producttype |-> p.producttype, duration |-> "DAY", price |-> 0,
   squareoff |-> "0", stoploss |-> "0", quantity |-> p.quantity]

\* The order request place_order builds.
orderParams(a) ==
  LET p == OrderBound(a) IN
  [variety |-> "NORMAL", tradingsymbol |-> p.symbol,
   symboltoken |-> p.symboltoken, transactiontype |-> p.transactiontype,
   exchange |-> "NSE", ordertype |-> p.ordertype,
   producttype |-> p.producttype, duration |-> "DAY", price |-> p.price,
   squareoff |-> "0", stoploss |-> "0", quantity |-> p.quantity]

\* cancel_order's positional arguments.
CancelRequest(a) ==
  [order_id |-> a.order_id, variety |-> Default(a.variety, "NORMAL")]

\* The SDK method each tool forwards to, and what it passes.
Endpoint(t) ==
  CASE t = "get_proftfolio" -> "holding"
    [] t = "get_candle_data" -> "getCandleData"
    [] t = "place_order" -> "placeOrderFullResponse"
    [] t = "cancel_order" -> "cancelOrder"
    [] t = "get_order_book" -> "orderBook"

Request(t, a) ==
  CASE t = "get_candle_data" -> queryParams(a)
    [] t = "place_order" -> orderParams(a)
    [] t = "cancel_order" -> CancelRequest(a)
    [] OTHER -> NoArgs

\* Every tool swallowing, and every tool re-raising.
OnError_swallow_all(t) == "return_none"

OnError_raise_all(t) == "raise"

\* What a tool does once its except clause has logged the exception:
\* get_proftfolio re-raises it (line 65), the others return None.
OnError(t) == IF t = "get_proftfolio" THEN "raise" ELSE "return_none"

\* One module-level SmartConnect object, used again by every invocation.
NewHandle_cached(n) == 1

\* The identity of the object SmartConnect(api_key) constructs, the n-th so far.
NewHandle(n) == n + 1

\* The test left out, and the test turned round (`== True`).
IsFailureFlag_never(d) == FALSE

IsFailureFlag_inverted(d) == d.status = "True"

\* Line 34's test, `data['status'] == False`, on a mapping that has the key.
IsFailureFlag(d) == PyEqFalse(d.status)

\* Another object than the one authenticated is handed back.
SessionReturn_fresh(h) == h + 1

\* Line 37, `return smartApi`: the handle handed back to the tool.
SessionReturn(h) == h

\* A failure-flagged response turned into None.
ToolResult_checked(r) ==
  IF r.kind = "dict" /\ PyEqFalse(r.status) THEN PyNone ELSE r

\* `return response` (lines 62, 102, 151, 180, 206).
ToolResult(r) == r

(***************************************************************************)
(* State                                                                   *)
(***************************************************************************)
VARIABLES
  inv,          \* invocations started so far
  pc,           \* where the running invocation stands
  call,         \* the running invocation: [tool, args]
  constructed,  \* SmartConnect objects constructed so far
  smartApi,     \* get_smart_api_session's local smartApi
  toolApi,      \* the tool's local smartApi
  data,         \* get_smart_api_session's local data
  response,     \* the tool's local response
  exc,          \* the exception in flight
  sessOut,      \* how get_smart_api_session ended in this invocation
  result,       \* how the invocation ended
  calls,        \* the calls this invocation made on the SDK and pyotp, in order
  log,          \* the entries this invocation handed to the logger, in order
  built         \* <<handle, invocation>> for every SmartConnect constructed

vars ==
  <<inv, pc, call, constructed, smartApi, toolApi, data, response, exc,
    sessOut, result, calls, log, built>>

NoOutcome == [kind |-> "none", handle |-> NoHandle, value |-> PyNone, exc |-> NoExc]

Returned(v) == [kind |-> "return", handle |-> NoHandle, value |-> v, exc |-> NoExc]

ReturnedHandle(h) == [kind |-> "return", handle |-> h, value |-> PyNone, exc |-> NoExc]

Raised(e) == [kind |-> "raise", handle |-> NoHandle, value |-> PyNone, exc |-> e]

\* One call on the external libraries (the SDK, pyotp), as a mock records it.
SdkCall(op, h, req, out) ==
  [op |-> op, handle |-> h, req |-> req, out |-> out]

\* One entry handed to the logger.
LogEntry(by, level, e, d) ==
  [by |-> by, level |-> level, exc |-> e, data |-> d]

Init ==
  /\ inv = 0
  /\ pc = "idle"
  /\ call = [tool |-> "none", args |-> NoArgs]
  /\ constructed = 0
  /\ smartApi = NoHandle
  /\ toolApi = NoHandle
  /\ data = PyNone
  /\ response = PyNone
  /\ exc = NoExc
  /\ sessOut = NoOutcome
  /\ result = NoOutcome
  /\ calls = <<>>
  /\ log = <<>>
  /\ built = {}

(***************************************************************************)
(* The tools' entry: the server calls one tool at a time.                  *)
(***************************************************************************)
Invoke(t, a) ==
  /\ pc \in {"idle", "done"}
  /\ inv < MaxInvocations
  /\ inv' = inv + 1
  /\ call' = [tool |-> t, args |-> a]
  /\ pc' = "L30"
  /\ smartApi' = NoHandle
  /\ toolApi' = NoHandle
  /\ data' = PyNone
  /\ response' = PyNone
  /\ exc' = NoExc
  /\ sessOut' = NoOutcome
  /\ result' = NoOutcome
  /\ calls' = <<>>
  /\ log' = <<>>
  /\ UNCHANGED <<constructed, built>>

get_proftfolio == Invoke("get_proftfolio", NoArgs)

get_candle_data == \E a \in CandleArgs : Invoke("get_candle_data", a)

place_order == \E a \in OrderArgs : Invoke("place_order", a)

cancel_order == \E a \in CancelArgs : Invoke("cancel_order", a)

get_order_book == Invoke("get_order_book", NoArgs)

(***************************************************************************)
(* get_smart_api_session, lines 30-40                                      *)
(***************************************************************************)
\* Line 30, outside the try: an exception of the constructor leaves
\* get_smart_api_session at once and reaches the tool's except clause.
SmartConnect ==
  /\ pc = "L30"
  /\ \/ /\ constructed' = constructed + 1
        /\ smartApi' = NewHandle(constructed)
        /\ calls' = Append(calls,
             SdkCall("SmartConnect", NewHandle(constructed), NoArgs, Returned(PyNone)))
        /\ built' = built \cup {<<NewHandle(constructed), inv>>}
        /\ pc' = "L32"
        /\ UNCHANGED <<exc, sessOut>>
     \/ /\ calls' = Append(calls,
             SdkCall("SmartConnect", NoHandle, NoArgs, Raised("OSError")))
        /\ exc' = "OSError"
        /\ sessOut' = Raised("OSError")
        /\ pc' = "L63"
        /\ UNCHANGED <<constructed, smartApi, built>>
  /\ UNCHANGED <<inv, call, toolApi, data, response, result, log>>

\* Line 32: pyotp.TOTP(token).now(), which raises on a missing or malformed seed.
TOTP_now ==
  /\ pc = "L32"
  /\ \/ /\ calls' = Append(calls,
             SdkCall("TOTP.now", NoHandle, NoArgs, Returned(PyNone)))
        /\ pc' = "L33"
        /\ UNCHANGED exc
     \/ /\ calls' = Append(calls,
             SdkCall("TOTP.now", NoHandle, NoArgs, Raised("binascii.Error")))
        /\ exc' = "binascii.Error"
        /\ pc' = "L38"
  /\ UNCHANGED <<built, inv, call, constructed, smartApi, toolApi, data, response,
                 sessOut, result, log>>

\* Line 33: the authentication call, on the handle of line 30.
generateSession ==
  /\ pc = "L33"
  /\ \/ \E d \in Responses :
          /\ calls' = Append(calls,
               SdkCall("generateSession", smartApi, NoArgs, Returned(d)))
          /\ data' = d
          /\ pc' = "L34"
          /\ UNCHANGED exc
     \/ \E e \in SdkErrors :
          /\ calls' = Append(calls,
               SdkCall("generateSession", smartApi, NoArgs, Raised(e)))
          /\ exc' = e
          /\ pc' = "L38"
          /\ UNCHANGED data
  /\ UNCHANGED <<built, inv, call, constructed, smartApi, toolApi, response,
                 sessOut, result, log>>

\* Lines 34-35 and 37: subscripting None or a mapping without the key raises;
\* a failure flag is logged; anything else returns the handle to the tool.
CheckStatus ==
  /\ pc = "L34"
  /\ \/ /\ data.kind = "None"
        /\ exc' = "TypeError"
        /\ pc' = "L38"
        /\ UNCHANGED <<toolApi, sessOut, log>>
     \/ /\ data.kind = "dict" /\ data.status = "missing"
        /\ exc' = "KeyError"
        /\ pc' = "L38"
        /\ UNCHANGED <<toolApi, sessOut, log>>
     \/ /\ data.kind = "dict" /\ data.status # "missing"
        /\ IsFailureFlag(data)
        /\ log' = Append(log, LogEntry("get_smart_api_session", "error", NoExc, data))
        /\ pc' = "L36"
        /\ UNCHANGED <<toolApi, sessOut, exc>>
     \/ /\ data.kind = "dict" /\ data.status # "missing"
        /\ ~IsFailureFlag(data)
        /\ sessOut' = ReturnedHandle(SessionReturn(smartApi))
        /\ toolApi' = SessionReturn(smartApi)
        /\ pc' = "call"
        /\ UNCHANGED <<exc, log>>
  /\ UNCHANGED <<built, inv, call, constructed, smartApi, data, response, result, calls>>

\* Line 36: raise Exception("Failed to authenticate with SmartAPI"), inside the try.
RaiseAuthFailed ==
  /\ pc = "L36"
  /\ exc' = AuthException
  /\ pc' = "L38"
  /\ UNCHANGED <<built, inv, call, constructed, smartApi, toolApi, data, response,
                 sessOut, result, calls, log>>

\* Lines 38-39: the except clause logs the exception.
SessionLogError ==
  /\ pc = "L38"
  /\ log' = Append(log, LogEntry("get_smart_api_session", "error", exc, PyNone))
  /\ pc' = "L40"
  /\ UNCHANGED <<built, inv, call, constructed, smartApi, toolApi, data, response,
                 exc, sessOut, result, calls>>

\* Line 40: raise e, into the tool's try.
SessionReraise ==
  /\ pc = "L40"
  /\ sessOut' = Raised(exc)
  /\ pc' = "L63"
  /\ UNCHANGED <<built, inv, call, constructed, smartApi, toolApi, data, response,
                 exc, result, calls, log>>

(***************************************************************************)
(* The tools' bodies after get_smart_api_session has returned              *)
(***************************************************************************)
\* Lines 61, 101, 150, 179, 205: the one forwarded call.
EndpointCall ==
  /\ pc = "call"
  /\ \/ \E r \in Responses :
          /\ calls' = Append(calls,
               SdkCall(Endpoint(call.tool), toolApi,
                       Request(call.tool, call.args), Returned(r)))
          /\ response' = r
          /\ pc' = "return"
          /\ UNCHANGED exc
     \/ \E e \in SdkErrors :
          /\ calls' = Append(calls,
               SdkCall(Endpoint(call.tool), toolApi,
                       Request(call.tool, call.args), Raised(e)))
          /\ exc' = e
          /\ pc' = "L63"
          /\ UNCHANGED response
  /\ UNCHANGED <<built, inv, call, constructed, smartApi, toolApi, data, sessOut,
                 result, log>>

\* Lines 62, 102, 151, 180, 206: return the response.
ToolReturn ==
  /\ pc = "return"
  /\ result' = Returned(ToolResult(response))
  /\ pc' = "done"
  /\ UNCHANGED <<built, inv, call, constructed, smartApi, toolApi, data, response,
                 exc, sessOut, calls, log>>

\* Lines 63-64, 103-104, 152-153, 181-182, 207-208: logger.exception.
ToolLogException ==
  /\ pc = "L63"
  /\ log' = Append(log, LogEntry(call.tool, "exception", exc, PyNone))
  /\ pc' = "L65"
  /\ UNCHANGED <<built, inv, call, constructed, smartApi, toolApi, data, response,
                 exc, sessOut, result, calls>>

\* Lines 65, 105, 154, 183, 209: raise e, or return None.
ToolFail ==
  /\ pc = "L65"
  /\ \/ /\ OnError(call.tool) = "raise"
        /\ result' = Raised(exc)
     \/ /\ OnError(call.tool) = "return_none"
        /\ result' = Returned(PyNone)
  /\ pc' = "done"
  /\ UNCHANGED <<built, inv, call, constructed, smartApi, toolApi, data, response,
                 exc, sessOut, calls, log>>

Next ==
  \/ get_proftfolio
  \/ get_candle_data
  \/ place_order
  \/ cancel_order
  \/ get_order_book
  \/ SmartConnect
  \/ TOTP_now
  \/ generateSession
  \/ CheckStatus
  \/ RaiseAuthFailed
  \/ SessionLogError
  \/ SessionReraise
  \/ EndpointCall
  \/ ToolReturn
  \/ ToolLogException
  \/ ToolFail

Spec == Init /\ [][Next]_vars

(***************************************************************************)
(* What the properties below read off the state                            *)
(***************************************************************************)
Done == pc = "done"

CallsOf(op) == {i \in DOMAIN calls : calls[i].op = op}

EndpointOps == {Endpoint(t) : t \in Tools}

EndpointCalls == {i \in DOMAIN calls : calls[i].op \in EndpointOps}

EndpointRaised == \E i \in EndpointCalls : calls[i].out.kind = "raise"

SessionRaised == sessOut.kind = "raise"

\* The invocation met an exception in session establishment or in the
\* forwarded call.
Failed == SessionRaised \/ EndpointRaised

\* The exception it met.
FailureExc ==
  IF SessionRaised THEN sessOut.exc
  ELSE IF EndpointRaised
       THEN calls[CHOOSE i \in EndpointCalls : calls[i].out.kind = "raise"].out.exc
       ELSE NoExc

LoggedBy(op) == \E i \in DOMAIN log : log[i].by = op

\* The authentication response carries the failure flag.
AuthFlaggedFailed ==
  \E i \in CallsOf("generateSession") :
    /\ calls[i].out.kind = "return"
    /\ calls[i].out.value.kind = "dict"
    /\ PyEqFalse(calls[i].out.value.status)

(***************************************************************************)
(* C1: whenever session establishment or the holdings call raises during   *)
(* an invocation of get_proftfolio, the invocation ends by raising that    *)
(* same exception, never by returning, and get_proftfolio has logged that  *)
(* exception by then.                                                      *)
(***************************************************************************)
PortfolioReraises ==
  (call.tool = "get_proftfolio" /\ Failed) =>
     /\ result.kind # "return"
     /\ Done => result = Raised(FailureExc)
     /\ result.kind = "raise" =>
          \E i \in DOMAIN log :
            /\ log[i].by = "get_proftfolio"
            /\ log[i].level = "exception"
            /\ log[i].exc = FailureExc

PortfolioReraises_Witness ==
  /\ Done
  /\ call.tool = "get_proftfolio"
  /\ EndpointRaised
  /\ result = Raised("DataException")

(***************************************************************************)
(* C2: get_candle_data, place_order, cancel_order and get_order_book never *)
(* raise to the caller; an invocation in which session establishment or    *)
(* the forwarded call raised ends by returning None.                       *)
(***************************************************************************)
SwallowingToolsReturnNull ==
  call.tool \in Swallowing =>
     /\ result.kind # "raise"
     /\ (Done /\ Failed) => result = Returned(PyNone)

SwallowingToolsReturnNull_Witness ==
  /\ Done
  /\ call.tool = "cancel_order"
  /\ SessionRaised
  /\ result = Returned(PyNone)

(***************************************************************************)
(* C3: when the authentication response carries the failure flag, session  *)
(* establishment never returns a handle; it ends by raising, and it has    *)
(* logged the response as an error by then.                                *)
(***************************************************************************)
SessionFailureFlagRaises ==
  AuthFlaggedFailed =>
     /\ sessOut.kind # "return"
     /\ toolApi = NoHandle
     /\ pc \in {"L63", "L65", "done"} => sessOut.kind = "raise"
     /\ sessOut.kind = "raise" =>
          \E i \in DOMAIN log :
            /\ log[i].by = "get_smart_api_session"
            /\ log[i].level = "error"
            /\ log[i].data = data

SessionFailureFlagRaises_Witness ==
  /\ AuthFlaggedFailed
  /\ data = Dict("False")
  /\ sessOut = Raised(AuthException)
  /\ LoggedBy("get_smart_api_session")

(***************************************************************************)
(* C4, as stated: every finished invocation has made exactly one           *)
(* generateSession call, on a handle constructed in that invocation, and   *)
(* no handle is used by an invocation other than the one that constructed  *)
(* it.                                                                     *)
(***************************************************************************)
UsesOwnHandlesOnly ==
  \A i \in CallsOf("generateSession") \cup EndpointCalls :
    /\ <<calls[i].handle, inv>> \in built
    /\ \A b \in built : b[1] = calls[i].handle => b[2] = inv

ExactlyOneAuthenticationPerInvocation ==
  /\ Done => Cardinality(CallsOf("generateSession")) = 1
  /\ UsesOwnHandlesOnly

\* Handle construction and passcode generation both returned.
ReachedAuthentication ==
  /\ \E i \in CallsOf("SmartConnect") : calls[i].out.kind = "return"
  /\ \E i \in CallsOf("TOTP.now") : calls[i].out.kind = "return"

(***************************************************************************)
(* C4, amended: every invocation enters session establishment once, which  *)
(* constructs at most one handle and makes at most one generateSession     *)
(* call (no retry): exactly one when handle construction and passcode      *)
(* generation both return, none when either raises.  Every authentication  *)
(* and endpoint call is made on a handle constructed in the same           *)
(* invocation, and on no handle of another invocation.                     *)
(***************************************************************************)
OneAuthenticationAttemptPerInvocation ==
  /\ Cardinality(CallsOf("SmartConnect")) <= 1
  /\ Cardinality(CallsOf("generateSession")) <= 1
  /\ Cardinality({b \in built : b[2] = inv}) <= 1
  /\ Done =>
       /\ Cardinality(CallsOf("SmartConnect")) = 1
       /\ Cardinality(CallsOf("generateSession")) =
            (IF ReachedAuthentication THEN 1 ELSE 0)
  /\ UsesOwnHandlesOnly

OneAuthenticationAttemptPerInvocation_Witness ==
  /\ Done
  /\ inv = 2
  /\ Cardinality(built) = 2
  /\ Cardinality(CallsOf("generateSession")) = 1
  /\ Cardinality(EndpointCalls) = 1

(***************************************************************************)
(* C5: whenever session establishment ends by raising, it has written a    *)
(* log entry of its own by then; whenever a tool ends by raising, or by    *)
(* returning None because of an exception, the tool has written a log      *)
(* entry of its own by then.                                               *)
(***************************************************************************)
EveryErrorOutcomeLogged ==
  /\ SessionRaised => LoggedBy("get_smart_api_session")
  /\ (result.kind = "raise" \/ (result = Returned(PyNone) /\ Failed)) =>
       LoggedBy(call.tool)

(***************************************************************************)
(* C6: every request place_order submits has variety "NORMAL", duration    *)
(* "DAY", stop-loss "0", square-off "0" and exchange "NSE", and carries    *)
(* the caller's symbol, security identifier, side, quantity, order type,   *)
(* product type and price (the declared default where the caller gave      *)
(* none); when the SDK raises, place_order returns None.                   *)
(***************************************************************************)
OrderRequestFixedShape ==
  call.tool = "place_order" =>
     /\ \A i \in EndpointCalls :
          LET r == calls[i].req
              a == call.args IN
          /\ calls[i].op = "placeOrderFullResponse"
          /\ r.variety = "NORMAL"
          /\ r.duration = "DAY"
          /\ r.stoploss = "0"
          /\ r.squareoff = "0"
          /\ r.exchange = "NSE"
          /\ r.tradingsymbol = a.symbol
          /\ r.symboltoken = a.symboltoken
          /\ r.transactiontype = a.transactiontype
          /\ r.quantity = a.quantity
          /\ r.ordertype = (IF a.ordertype = <<>> THEN "LIMIT" ELSE a.ordertype[1])
          /\ r.producttype =
               (IF a.producttype = <<>> THEN "DELIVERY" ELSE a.producttype[1])
          /\ r.price = (IF a.price = <<>> THEN 0 ELSE a.price[1])
          /\ DOMAIN r = {"variety", "tradingsymbol", "symboltoken",
                         "transactiontype", "exchange", "ordertype",
                         "producttype", "duration", "price", "squareoff",
                         "stoploss", "quantity"}
     /\ (Done /\ Failed) => result = Returned(PyNone)

OrderRequestFixedShape_Witness ==
  /\ Done
  /\ call.tool = "place_order"
  /\ call.args.price = <<1500>>
  /\ call.args.ordertype = <<"MARKET">>
  /\ call.args.transactiontype = "SELL"
  /\ \E i \in EndpointCalls :
       calls[i].req.price = 1500 /\ calls[i].out.kind = "raise"
  /\ result = Returned(PyNone)

(***************************************************************************)
(* C7: get_candle_data called with a start and an end time only submits    *)
(* the query {exchange "NSE", symboltoken "3045", interval "ONE_MINUTE",   *)
(* fromdate: the start time, todate: the end time}, whatever the two       *)
(* strings are; when the SDK raises, it returns None and does not raise.   *)
(***************************************************************************)
CandleDefaultQuery ==
  (/\ call.tool = "get_candle_data"
   /\ call.args.symboltoken = <<>>
   /\ call.args.interval = <<>>) =>
     /\ \A i \in EndpointCalls :
          /\ calls[i].op = "getCandleData"
          /\ calls[i].req =
               [exchange |-> "NSE", symboltoken |-> "3045",
                interval |-> "ONE_MINUTE",
                fromdate |-> call.args.start_time,
                todate |-> call.args.end_time]
     /\ result.kind # "raise"
     /\ (Done /\ Failed) => result = Returned(PyNone)

CandleDefaultQuery_Witness ==
  /\ Done
  /\ call.tool = "get_candle_data"
  /\ call.args.symboltoken = <<>>
  /\ call.args.interval = <<>>
  /\ call.args.start_time = "not a time"
  /\ call.args.end_time = "2024-01-01 09:15"
  /\ EndpointRaised
  /\ result = Returned(PyNone)

(***************************************************************************)
(* C8: when session establishment returns, the handle it returns is the    *)
(* one SmartConnect constructed and generateSession was called on, and     *)
(* the tool makes its endpoint call on that handle.                        *)
(***************************************************************************)
SessionHandleUnmodified ==
  /\ sessOut.kind = "return" =>
       /\ \E i \in CallsOf("SmartConnect") :
            calls[i].out.kind = "return" /\ calls[i].handle = sessOut.handle
       /\ \E i \in CallsOf("generateSession") :
            calls[i].out.kind = "return" /\ calls[i].handle = sessOut.handle
       /\ toolApi = sessOut.handle
       /\ sessOut.handle # NoHandle
  /\ \A i \in EndpointCalls :
       sessOut.kind = "return" /\ calls[i].handle = sessOut.handle

SessionHandleUnmodified_Witness ==
  /\ Done
  /\ inv = 2
  /\ sessOut = ReturnedHandle(2)
  /\ \E i \in EndpointCalls : calls[i].handle = 2
  /\ \E i \in CallsOf("generateSession") : calls[i].handle = 2

(***************************************************************************)
(* C9: when the endpoint call returns, whatever it returns (a response     *)
(* flagged True or False, one without a flag, or None), the tool returns   *)
(* exactly that value, does not raise and logs nothing.                    *)
(***************************************************************************)
ResponseReturnedUnmodified ==
  \A i \in EndpointCalls :
    calls[i].out.kind = "return" =>
       /\ result.kind # "raise"
       /\ log = <<>>
       /\ pc \in {"return", "done"}
       /\ Done => result = Returned(calls[i].out.value)

ResponseReturnedUnmodified_Witness ==
  /\ Done
  /\ call.tool = "place_order"
  /\ \E i \in EndpointCalls : calls[i].out = Returned(Dict("False"))
  /\ result = Returned(Dict("False"))
  /\ log = <<>>

(***************************************************************************)
(* C10: every endpoint call comes after a generateSession call of the same *)
(* invocation, on the same handle, that returned a response without the    *)
(* failure flag; an invocation makes at most one endpoint call; and when   *)
(* session establishment raises, or the authentication response carries    *)
(* the failure flag, no endpoint call is made.                             *)
(***************************************************************************)
NoEndpointCallWithoutAuthentication ==
  /\ \A i \in EndpointCalls :
       \E j \in CallsOf("generateSession") :
         /\ j < i
         /\ calls[j].handle = calls[i].handle
         /\ calls[j].out.kind = "return"
         /\ calls[j].out.value.kind = "dict"
         /\ calls[j].out.value.status \notin {"False", "0", "missing"}
  /\ Cardinality(EndpointCalls) <= 1
  /\ (SessionRaised \/ AuthFlaggedFailed) => EndpointCalls = {}
  /\ (\E j \in CallsOf("generateSession") : calls[j].out.kind = "raise") =>
       EndpointCalls = {}

NoEndpointCallWithoutAuthentication_Witness ==
  /\ Done
  /\ call.tool = "place_order"
  /\ AuthFlaggedFailed
  /\ SessionRaised
  /\ EndpointCalls = {}

====
